---- MODULE Spec2Model ----
(***************************************************************************)
(* A model of src/bot.py: the reminder store, the conversation handlers    *)
(* of the creation and removal wizards as registered in main(), and the    *)
(* periodic send_reminders scan.                                           *)
(*                                                                         *)
(* Texts are sequences of one-character strings, so that parsing           *)
(* (datetime.strptime), formatting (strftime) and Python's string          *)
(* comparison are computed character by character.                         *)
(***************************************************************************)
EXTENDS Integers, Sequences, FiniteSets, TLC

(***************************************************************************)
(* Characters and Python string primitives                                 *)
(***************************************************************************)
Digits == <<"0", "1", "2", "3", "4", "5", "6", "7", "8", "9">>

D09 == {Digits[k] : k \in 1..10}

D19 == D09 \ {"0"}

\* ord(c) for the characters the model uses (ASCII code points).
Ord(c) ==
    CASE c = " " -> 32
      [] c = "-" -> 45
      [] c = "/" -> 47
      [] c \in D09 -> 47 + (CHOOSE k \in 1..10 : Digits[k] = c)
      [] c = ":" -> 58
      [] OTHER -> 97

DigitVal(c) == (CHOOSE k \in 1..10 : Digits[k] = c) - 1

\* str.strip(): leading and trailing whitespace removed.
RECURSIVE LStrip(_)
LStrip(s) == IF s # <<>> /\ Head(s) = " " THEN LStrip(Tail(s)) ELSE s

RECURSIVE RStrip(_)
RStrip(s) ==
    IF s # <<>> /\ s[Len(s)] = " " THEN RStrip(SubSeq(s, 1, Len(s) - 1)) ELSE s

Strip(s) == RStrip(LStrip(s))

\* Python's a < b on str: lexicographic by code point, a proper prefix is less.
RECURSIVE StrLess(_, _)
StrLess(a, b) ==
    IF b = <<>> THEN FALSE
    ELSE IF a = <<>> THEN TRUE
    ELSE IF Head(a) # Head(b) THEN Ord(Head(a)) < Ord(Head(b))
    ELSE StrLess(Tail(a), Tail(b))

\* 'x' in text
Contains(text, c) == \E k \in 1..Len(text) : text[k] = c

\* text starts with the literal p (a regex '^p' search)
StartsWith(text, p) == Len(text) >= Len(p) /\ SubSeq(text, 1, Len(p)) = p

(***************************************************************************)
(* datetime.strptime: the regular expression _strptime builds from the     *)
(* format, matched with backtracking from the start of the text (re.match);*)
(* the whole text must be consumed.                                        *)
(***************************************************************************)
Lit(c) == [kind |-> "alt", alts |-> << <<{c}>> >>]

\* a run of format whitespace becomes \s+
ReWS == [kind |-> "ws", alts |-> <<>>]

\* %Y: \d\d\d\d
ReY == [kind |-> "alt", alts |-> << <<D09, D09, D09, D09>> >>]

\* %m: 1[0-2]|0[1-9]|[1-9]
Rem == [kind |-> "alt",
        alts |-> << <<{"1"}, {"0", "1", "2"}>>, <<{"0"}, D19>>, <<D19>> >>]

\* %d: 3[0-1]|[1-2]\d|0[1-9]|[1-9]| [1-9]
Red == [kind |-> "alt",
        alts |-> << <<{"3"}, {"0", "1"}>>, <<{"1", "2"}, D09>>, <<{"0"}, D19>>,
                    <<D19>>, <<{" "}, D19>> >>]

\* %H: 2[0-3]|[0-1]\d|\d
ReH == [kind |-> "alt",
        alts |-> << <<{"2"}, {"0", "1", "2", "3"}>>, <<{"0", "1"}, D09>>, <<D09>> >>]

\* %M: [0-5]\d|\d
ReM == [kind |-> "alt",
        alts |-> << <<{"0", "1", "2", "3", "4", "5"}, D09>>, <<D09>> >>]

TimeFormat == <<ReH, Lit(":"), ReM>>

DateFormat == <<ReY, Lit("-"), Rem, Lit("-"), Red>>

DateTimeFormat == DateFormat \o <<ReWS>> \o TimeFormat

MatchAlt(alt, s, i) ==
    /\ i + Len(alt) - 1 <= Len(s)
    /\ \A k \in 1..Len(alt) : s[i + k - 1] \in alt[k]

RECURSIVE WsRun(_, _)
WsRun(s, i) == IF i <= Len(s) /\ s[i] = " " THEN 1 + WsRun(s, i + 1) ELSE 0

\* The lengths element el can consume at position i, in the order the regex
\* engine tries them (-1: the alternative does not match here).
CandLens(el, s, i) ==
    IF el.kind = "ws"
    THEN [n \in 1..WsRun(s, i) |-> WsRun(s, i) - n + 1]
    ELSE [a \in 1..Len(el.alts) |->
            IF MatchAlt(el.alts[a], s, i) THEN Len(el.alts[a]) ELSE -1]

NoMatch == <<-1>>

RECURSIVE MatchFrom(_, _, _, _)
RECURSIVE TryCands(_, _, _, _, _, _)
TryCands(pat, k, s, i, c, a) ==
    IF a > Len(c) THEN NoMatch
    ELSE IF c[a] < 0 THEN TryCands(pat, k, s, i, c, a + 1)
    ELSE LET rest == MatchFrom(pat, k + 1, s, i + c[a])
         IN  IF rest # NoMatch THEN <<c[a]>> \o rest
             ELSE TryCands(pat, k, s, i, c, a + 1)

\* The lengths matched by elements k.. of pat from position i, or NoMatch.
MatchFrom(pat, k, s, i) ==
    IF k > Len(pat) THEN <<>>
    ELSE TryCands(pat, k, s, i, CandLens(pat[k], s, i), 1)

RECURSIVE SumSeq(_)
SumSeq(q) == IF q = <<>> THEN 0 ELSE Head(q) + SumSeq(Tail(q))

\* The text matched by element k, given the matched lengths.
Group(s, lens, k) ==
    LET start == SumSeq(SubSeq(lens, 1, k - 1)) + 1
    IN  SubSeq(s, start, start + lens[k] - 1)

\* int(): surrounding whitespace ignored.
RECURSIVE IntOfDigits(_, _)
IntOfDigits(q, acc) ==
    IF q = <<>> THEN acc ELSE IntOfDigits(Tail(q), 10 * acc + DigitVal(Head(q)))

IntOf(q) == IntOfDigits(Strip(q), 0)

(***************************************************************************)
(* The proleptic Gregorian calendar of datetime (years 1..9999)            *)
(***************************************************************************)
MINYEAR == 1

MAXYEAR == 9999

IsLeap(y) == y % 4 = 0 /\ (y % 100 # 0 \/ y % 400 = 0)

DaysInMonth(y, m) ==
    IF m = 2 THEN (IF IsLeap(y) THEN 29 ELSE 28)
    ELSE IF m \in {4, 6, 9, 11} THEN 30 ELSE 31

DaysBeforeYear(y) ==
    LET p == y - 1 IN p * 365 + (p \div 4) - (p \div 100) + (p \div 400)

RECURSIVE DaysBeforeMonth(_, _)
DaysBeforeMonth(y, m) ==
    IF m = 1 THEN 0 ELSE DaysBeforeMonth(y, m - 1) + DaysInMonth(y, m - 1)

\* date.toordinal(): 1 is 0001-01-01.
ToOrdinal(dt) == DaysBeforeYear(dt.y) + DaysBeforeMonth(dt.y, dt.m) + dt.d

MaxOrdinal == ToOrdinal([y |-> MAXYEAR, m |-> 12, d |-> 31])

RECURSIVE MonthOfDay(_, _, _)
MonthOfDay(y, m, n) ==
    IF n <= DaysInMonth(y, m) THEN [y |-> y, m |-> m, d |-> n]
    ELSE MonthOfDay(y, m + 1, n - DaysInMonth(y, m))

\* date.fromordinal() (_ord2ymd): 400-, 100-, 4- and 1-year cycles.
FromOrdinal(ord) ==
    LET n0   == ord - 1
        n400 == n0 \div 146097
        r400 == n0 % 146097
        n100 == r400 \div 36524
        r100 == r400 % 36524
        n4   == r100 \div 1461
        r4   == r100 % 1461
        n1   == r4 \div 365
        r1   == r4 % 365
        year == n400 * 400 + n100 * 100 + n4 * 4 + n1 + 1
    IN  IF n1 = 4 \/ n100 = 4
        THEN [y |-> year - 1, m |-> 12, d |-> 31]
        ELSE MonthOfDay(year, 1, r1 + 1)

\* date.weekday(): Monday is 0.
Weekday(dt) == (ToOrdinal(dt) + 6) % 7

ValidDate(y, m, d) ==
    /\ y \in MINYEAR..MAXYEAR
    /\ m \in 1..12
    /\ d \in 1..DaysInMonth(y, m)

\* strftime: zero-padded fields (years of four digits).
Pad2(n) == <<Digits[(n \div 10) + 1], Digits[(n % 10) + 1]>>

Pad4(n) == Pad2(n \div 100) \o Pad2(n % 100)

\* strftime("%Y-%m-%d")
FormatDate(dt) == Pad4(dt.y) \o <<"-">> \o Pad2(dt.m) \o <<"-">> \o Pad2(dt.d)

\* strftime("%H:%M")
FormatTime(t) == Pad2(t.H) \o <<":">> \o Pad2(t.M)

\* datetime.strptime(s, "%H:%M"); ok = FALSE stands for ValueError.
ParseTime(s) ==
    LET lens == MatchFrom(TimeFormat, 1, s, 1)
    IN  IF lens = NoMatch \/ SumSeq(lens) # Len(s)
        THEN [ok |-> FALSE, H |-> 0, M |-> 0]
        ELSE [ok |-> TRUE, H |-> IntOf(Group(s, lens, 1)),
              M |-> IntOf(Group(s, lens, 3))]

\* datetime.strptime(s, "%Y-%m-%d")
ParseDate(s) ==
    LET lens == MatchFrom(DateFormat, 1, s, 1)
        y    == IntOf(Group(s, lens, 1))
        m    == IntOf(Group(s, lens, 3))
        d    == IntOf(Group(s, lens, 5))
    IN  IF lens = NoMatch \/ SumSeq(lens) # Len(s)
        THEN [ok |-> FALSE, y |-> 0, m |-> 0, d |-> 0]
        ELSE IF ~ValidDate(y, m, d)
        THEN [ok |-> FALSE, y |-> 0, m |-> 0, d |-> 0]
        ELSE [ok |-> TRUE, y |-> y, m |-> m, d |-> d]

\* datetime.strptime(s, "%Y-%m-%d %H:%M")
ParseDateTime(s) ==
    LET lens == MatchFrom(DateTimeFormat, 1, s, 1)
        y    == IntOf(Group(s, lens, 1))
        m    == IntOf(Group(s, lens, 3))
        d    == IntOf(Group(s, lens, 5))
    IN  IF lens = NoMatch \/ SumSeq(lens) # Len(s)
        THEN [ok |-> FALSE, y |-> 0, m |-> 0, d |-> 0, H |-> 0, M |-> 0]
        ELSE IF ~ValidDate(y, m, d)
        THEN [ok |-> FALSE, y |-> 0, m |-> 0, d |-> 0, H |-> 0, M |-> 0]
        ELSE [ok |-> TRUE, y |-> y, m |-> m, d |-> d,
              H |-> IntOf(Group(s, lens, 7)), M |-> IntOf(Group(s, lens, 9))]

(***************************************************************************)
(* Texts of the conversation                                               *)
(***************************************************************************)
\* Python's None (no text is a sequence holding a longer string).
None == <<"None">>

Daily == <<"D", "a", "i", "l", "y">>

Weekly == <<"W", "e", "e", "k", "l", "y">>

Monthly == <<"M", "o", "n", "t", "h", "l", "y">>

OneOff == <<"O", "n", "e", "-", "o", "f", "f">>

Today == <<"T", "o", "d", "a", "y">>

Tomorrow == <<"T", "o", "m", "o", "r", "r", "o", "w">>

CustomDate == <<"C", "u", "s", "t", "o", "m", " ", "D", "a", "t", "e">>

Never == <<"N", "e", "v", "e", "r">>

OneWeek == <<"1", " ", "W", "e", "e", "k">>

OneMonth == <<"1", " ", "M", "o", "n", "t", "h">>

ThreeMonths == <<"3", " ", "M", "o", "n", "t", "h", "s">>

SixMonths == <<"6", " ", "M", "o", "n", "t", "h", "s">>

OneYear == <<"1", " ", "Y", "e", "a", "r">>

CmdCancel == <<"/", "c", "a", "n", "c", "e", "l">>

CmdStart == <<"/", "s", "t", "a", "r", "t">>

(***************************************************************************)
(* State                                                                   *)
(***************************************************************************)
VARIABLES
    reminders,    \* the global dict: a sequence of [uid, list] in insertion order
    disk,         \* reminders.json: [ok, data]; ok = FALSE is a torn file
    running,      \* whether the process is up
    convAdd,      \* per user, the state of add_conv_handler ("END": not in it)
    convRemove,   \* per user, the state of remove_conv_handler
    user_data,    \* per user, context.user_data
    now,          \* datetime.now(SGT): [date, H, M, S]
    tick,         \* the send_reminders coroutine: where it stands, what it read
    sends,        \* per one-off reminder (by id), the calls of send_message for it
    nextId,       \* the next reminder identity (identities are never reused)
    lastEval,     \* the latest evaluation of a reminder by the scan
    event         \* the latest step, as far as the environment records it

vars == <<reminders, disk, running, convAdd, convRemove, user_data, now, tick,
          sends, nextId, lastEval, event>>

\* The users that write to the bot.
Users == {1, 2}

\* Reminders committed over a run (identities 1..MaxReminders).
MaxReminders == 2

EmptyUserData ==
    [task |-> None, frequency |-> None, time |-> None, start_date |-> None,
     menu_shown |-> FALSE]

\* The clock reading of a scan that is not running: now_sgt is a local of
\* send_reminders (line 488) and has no value then; a reading of no moment.
NoClock == [date |-> [y |-> 1, m |-> 1, d |-> 1], H |-> 0, M |-> 0, S |-> 0]

\* had, seen and failed are kept for the record only, in the scans that have
\* track set: the reminders the dict held when the scan began, those the scan
\* has looked at, in order, and those for which send_message raised.
IdleTick ==
    [pc |-> "idle", ui |-> 0, ri |-> 0, size |-> 0, now_sgt |-> NoClock,
     current_time |-> None, current_date |-> None, current_day |-> 0,
     current_weekday |-> 0, id |-> 0, oneoff |-> FALSE, track |-> FALSE,
     had |-> {}, seen |-> <<>>, failed |-> {}]

NoEval ==
    [id |-> 0, reminder |-> None, now_sgt |-> NoClock, rejected |-> FALSE,
     should_send |-> FALSE]

NoEvent ==
    [kind |-> "none", u |-> 0, text |-> None, state |-> "END", rstate |-> "END",
     ud |-> EmptyUserData, store |-> <<>>, clock |-> NoClock, exc |-> "",
     id |-> 0, had |-> {}, seen |-> <<>>, failed |-> {}]

(***************************************************************************)
(* The reminders dict                                                      *)
(***************************************************************************)
HasKey(store, u) == \E k \in 1..Len(store) : store[k].uid = u

KeyIndex(store, u) == CHOOSE k \in 1..Len(store) : store[k].uid = u

\* reminders[user_id]
ListOf(store, u) == store[KeyIndex(store, u)].list

\* The new reminder put before the others of the user.
InsertReminderFirst(store, u, r) ==
    LET withKey == IF \E k \in 1..Len(store) : store[k].uid = u THEN store
                   ELSE Append(store, [uid |-> u, list |-> <<>>])
        k == CHOOSE j \in 1..Len(withKey) : withKey[j].uid = u
    IN  [withKey EXCEPT ![k].list = <<r>> \o @]

\* if user_id not in reminders: reminders[user_id] = []
\* reminders[user_id].append(new_reminder)
AppendReminder(store, u, r) ==
    LET withKey == IF HasKey(store, u) THEN store
                   ELSE Append(store, [uid |-> u, list |-> <<>>])
        k == KeyIndex(withKey, u)
    IN  [withKey EXCEPT ![k].list = Append(@, r)]

\* list.pop(i - 1) for the 1-based i
RemoveAt(q, i) == SubSeq(q, 1, i - 1) \o SubSeq(q, i + 1, Len(q))

PopReminder(store, u, number) ==
    [store EXCEPT ![KeyIndex(store, u)].list = RemoveAt(@, number)]

\* Every reminder record held by a store.
AllReminders(store) ==
    UNION {{store[k].list[j] : j \in 1..Len(store[k].list)} : k \in 1..Len(store)}

\* The identities of the reminders a store holds.
Ids(store) == {r.id : r \in AllReminders(store)}

(***************************************************************************)
(* Handlers of the add conversation.  A handler yields                     *)
(*   next : the state it returns ("END": ConversationHandler.END),         *)
(*   ud   : context.user_data when it returns,                             *)
(*   store: the reminders dict after its mutation,                         *)
(*   save : whether it called save_reminders,                              *)
(*   exc  : the exception that escapes it ("": none).                      *)
(***************************************************************************)
Result(next, ud, store, save, exc) ==
    [next |-> next, ud |-> ud, store |-> store, save |-> save, exc |-> exc]

add_reminder_start(ud, store) == Result("TASK", ud, store, FALSE, "")

get_task(ud, text, store) ==
    Result("FREQUENCY", [ud EXCEPT !.task = text], store, FALSE, "")

get_frequency(ud, text, store) ==
    LET frequency == Strip(text)
    IN  IF frequency \notin {Daily, Weekly, Monthly, OneOff}
        THEN Result("FREQUENCY", ud, store, FALSE, "")
        ELSE Result(IF frequency = OneOff THEN "ONE_OFF_DATETIME" ELSE "TIME",
                    [ud EXCEPT !.frequency = frequency], store, FALSE, "")

\* a < b for civil date-times [date, H, M, S]
DateTimeLess(a, b) ==
    LET oa == ToOrdinal(a.date)
        ob == ToOrdinal(b.date)
    IN  \/ oa < ob
        \/ oa = ob /\ a.H < b.H
        \/ oa = ob /\ a.H = b.H /\ a.M < b.M
        \/ oa = ob /\ a.H = b.H /\ a.M = b.M /\ a.S < b.S

\* The datetime strptime returns for "%Y-%m-%d %H:%M" (seconds 0).
AsDateTime(p) ==
    [date |-> [y |-> p.y, m |-> p.m, d |-> p.d], H |-> p.H, M |-> p.M, S |-> 0]

\* A reminder committed as sent already.
NewOneOffSent(id, ud, datetime_str) ==
    [id |-> id, task |-> ud.task, frequency |-> OneOff, datetime |-> datetime_str,
     sent |-> TRUE, time |-> None, start_date |-> None, end_date |-> None]

\* Lines 165-170: new_reminder of the one-off flow.
NewOneOff(id, ud, datetime_str) ==
    [id |-> id, task |-> ud.task, frequency |-> OneOff, datetime |-> datetime_str,
     sent |-> FALSE, time |-> None, start_date |-> None, end_date |-> None]

\* The present moment taken for the future.
NotInFutureStrict(reminder_datetime, now_sgt) ==
    DateTimeLess(reminder_datetime, now_sgt)

\* Line 143: reminder_datetime <= now_sgt
NotInFuture(reminder_datetime, now_sgt) ==
    ~DateTimeLess(now_sgt, reminder_datetime)

get_one_off_datetime(u, ud, text, store, clock, id) ==
    LET datetime_str == Strip(text)
        parsed       == ParseDateTime(datetime_str)
    IN  IF ~parsed.ok
        THEN Result("ONE_OFF_DATETIME", ud, store, FALSE, "")
        ELSE IF NotInFuture(AsDateTime(parsed), clock)
        THEN Result("ONE_OFF_DATETIME", ud, store, FALSE, "")
        ELSE Result("END", EmptyUserData,
                    AppendReminder(store, u, NewOneOff(id, ud, datetime_str)),
                    TRUE, "")

get_time(ud, text, store) ==
    LET time_str == Strip(text)
    IN  IF ~ParseTime(time_str).ok
        THEN Result("TIME", ud, store, FALSE, "")
        ELSE Result("START_DATE", [ud EXCEPT !.time = time_str], store, FALSE, "")

\* datetime + timedelta(days = n) on the date part; ok = FALSE: OverflowError
AddDays(dt, n) ==
    LET o == ToOrdinal(dt) + n
    IN  IF o \in 1..MaxOrdinal
        THEN [ok |-> TRUE, date |-> FromOrdinal(o)]
        ELSE [ok |-> FALSE, date |-> dt]

get_start_date(ud, text, store, clock) ==
    LET date_str == Strip(text)
        tomorrow == AddDays(clock.date, 1)
    IN  IF date_str = Today
        THEN Result("END_DATE", [ud EXCEPT !.start_date = FormatDate(clock.date)],
                    store, FALSE, "")
        ELSE IF date_str = Tomorrow
        THEN IF tomorrow.ok
             THEN Result("END_DATE",
                         [ud EXCEPT !.start_date = FormatDate(tomorrow.date)],
                         store, FALSE, "")
             ELSE Result("START_DATE", ud, store, FALSE, "OverflowError")
        ELSE IF date_str = CustomDate
        THEN Result("START_DATE", ud, store, FALSE, "")
        ELSE IF ~ParseDate(date_str).ok
        THEN Result("START_DATE", ud, store, FALSE, "")
        ELSE Result("END_DATE", [ud EXCEPT !.start_date = date_str], store, FALSE, "")

\* The days each relative end-date choice adds to the start date.
ShortcutDays(choice) ==
    CASE choice = OneWeek -> 7
      [] choice = OneMonth -> 30
      [] choice = ThreeMonths -> 90
      [] choice = SixMonths -> 180
      [] choice = OneYear -> 365

Shortcuts == {OneWeek, OneMonth, ThreeMonths, SixMonths, OneYear}

NewRecurring(id, ud, end_date) ==
    [id |-> id, task |-> ud.task, frequency |-> ud.frequency, time |-> ud.time,
     start_date |-> ud.start_date, end_date |-> end_date, datetime |-> None,
     sent |-> FALSE]

\* Lines 322-361: the reminder is appended and saved, the session cleared.
CommitRecurring(u, ud, store, id, end_date) ==
    Result("END", EmptyUserData,
           AppendReminder(store, u, NewRecurring(id, ud, end_date)), TRUE, "")

\* The start date itself let through.
EndBeforeStart(end_date, start_date) ==
    ToOrdinal(end_date) < ToOrdinal(start_date)

\* Line 307: end_date <= start_date
EndNotAfterStart(end_date, start_date) ==
    ToOrdinal(end_date) <= ToOrdinal(start_date)

get_end_date(u, ud, text, store, id) ==
    LET date_str   == Strip(text)
        start_date == ParseDate(ud.start_date)
        shifted    == AddDays(start_date, ShortcutDays(date_str))
        end_date   == ParseDate(date_str)
    IN  IF date_str = Never
        THEN CommitRecurring(u, ud, store, id, None)
        ELSE IF date_str = CustomDate
        THEN Result("END_DATE", ud, store, FALSE, "")
        ELSE IF date_str \in Shortcuts
        THEN IF shifted.ok
             THEN CommitRecurring(u, ud, store, id, FormatDate(shifted.date))
             ELSE Result("END_DATE", ud, store, FALSE, "OverflowError")
        ELSE IF ~end_date.ok
        THEN Result("END_DATE", ud, store, FALSE, "")
        ELSE IF EndNotAfterStart(end_date, start_date)
        THEN Result("END_DATE", ud, store, FALSE, "")
        ELSE CommitRecurring(u, ud, store, id, date_str)

(***************************************************************************)
(* The removal conversation, cancel, and the handlers outside of the       *)
(* conversations                                                           *)
(***************************************************************************)
remove_reminder_start(u, ud, store) ==
    IF ~HasKey(store, u) \/ ListOf(store, u) = <<>>
    THEN Result("END", ud, store, FALSE, "")
    ELSE Result("REMOVE_NUMBER", ud, store, FALSE, "")

\* int(text): an optional sign and decimal digits; ok = FALSE: ValueError
ParseInt(s) ==
    LET body == IF s # <<>> /\ Head(s) \in {"-", "+"} THEN Tail(s) ELSE s
        neg  == s # <<>> /\ Head(s) = "-"
    IN  IF body = <<>> \/ \E k \in 1..Len(body) : body[k] \notin D09
        THEN [ok |-> FALSE, value |-> 0]
        ELSE [ok |-> TRUE,
              value |-> IF neg THEN 0 - IntOfDigits(body, 0) ELSE IntOfDigits(body, 0)]

remove_reminder_confirm(u, ud, text, store) ==
    LET number == ParseInt(Strip(text))
    IN  IF ~number.ok
        THEN Result("REMOVE_NUMBER", ud, store, FALSE, "")
        ELSE IF ~HasKey(store, u)
        THEN Result("REMOVE_NUMBER", ud, store, FALSE, "KeyError")
        ELSE IF 1 <= number.value /\ number.value <= Len(ListOf(store, u))
        THEN Result("END", ud, PopReminder(store, u, number.value), TRUE, "")
        ELSE Result("REMOVE_NUMBER", ud, store, FALSE, "")

\* The session kept.
cancelKeepsSession(ud, store) == Result("END", ud, store, FALSE, "")

\* Lines 481-482: context.user_data.clear(); return ConversationHandler.END
cancel(ud, store) == Result("END", EmptyUserData, store, FALSE, "")

\* start and see_list only reply.
see_list(ud, store) == Result("KEEP", ud, store, FALSE, "")

\* The value handle_menu returns is dropped: it is no conversation handler.
handle_menu(ud, text, store) ==
    IF ~ud.menu_shown
    THEN Result("KEEP", [ud EXCEPT !.menu_shown = TRUE], store, FALSE, "")
    ELSE Result("KEEP", ud, store, FALSE, "")

(***************************************************************************)
(* main(): the handlers in the order they are registered.  The first       *)
(* handler that accepts an update handles it.                              *)
(***************************************************************************)
\* filters.COMMAND
IsCommand(text) == text # <<>> /\ Head(text) = "/"

\* filters.Regex('^(1|Add)')
MatchesAdd(text) == StartsWith(text, <<"1">>) \/ StartsWith(text, <<"A", "d", "d">>)

\* filters.Regex('^(3|Remove)')
MatchesRemove(text) ==
    StartsWith(text, <<"3">>) \/ StartsWith(text, <<"R", "e", "m", "o", "v", "e">>)

\* filters.Regex('^(2|See|List)')
MatchesSee(text) ==
    \/ StartsWith(text, <<"2">>)
    \/ StartsWith(text, <<"S", "e", "e">>)
    \/ StartsWith(text, <<"L", "i", "s", "t">>)

\* The handler add_conv_handler holds for the state.
AddStateHandler(state, u, ud, text, store, clock, id) ==
    CASE state = "TASK" -> get_task(ud, text, store)
      [] state = "FREQUENCY" -> get_frequency(ud, text, store)
      [] state = "TIME" -> get_time(ud, text, store)
      [] state = "START_DATE" -> get_start_date(ud, text, store, clock)
      [] state = "END_DATE" -> get_end_date(u, ud, text, store, id)
      [] state = "ONE_OFF_DATETIME" ->
            get_one_off_datetime(u, ud, text, store, clock, id)

\* Whether add_conv_handler accepts the update.
AddAccepts(state, text) ==
    IF state # "END" THEN ~IsCommand(text) \/ text = CmdCancel
    ELSE MatchesAdd(text)

\* Whether remove_conv_handler accepts the update.
RemoveAccepts(state, text) ==
    IF state # "END" THEN ~IsCommand(text) \/ text = CmdCancel
    ELSE MatchesRemove(text)

\* The conversation ("add", "remove", "none") whose handler takes the update,
\* and what the handler yields.
Dispatch(u, text, sAdd, sRemove, ud, store, clock, id) ==
    IF text = CmdStart
    THEN [conv |-> "none", res |-> see_list(ud, store)]
    ELSE IF AddAccepts(sAdd, text)
    THEN [conv |-> "add",
          res  |-> IF sAdd = "END" THEN add_reminder_start(ud, store)
                   ELSE IF text = CmdCancel THEN cancel(ud, store)
                   ELSE AddStateHandler(sAdd, u, ud, text, store, clock, id)]
    ELSE IF RemoveAccepts(sRemove, text)
    THEN [conv |-> "remove",
          res  |-> IF sRemove = "END" THEN remove_reminder_start(u, ud, store)
                   ELSE IF text = CmdCancel THEN cancel(ud, store)
                   ELSE remove_reminder_confirm(u, ud, text, store)]
    ELSE IF MatchesSee(text)
    THEN [conv |-> "none", res |-> see_list(ud, store)]
    ELSE IF ~IsCommand(text)
    THEN [conv |-> "none", res |-> handle_menu(ud, text, store)]
    ELSE [conv |-> "none", res |-> see_list(ud, store)]

(***************************************************************************)
(* save_reminders and load_reminders                                       *)
(***************************************************************************)
\* How a call of save_reminders can end: the file written; an exception before
\* the file is touched; an exception, or the death of the process, after
\* open(..., 'w') has truncated it.
SaveOutcomes == {"ok", "error", "error_torn", "crash"}

\* A save_reminders that writes nothing.
SavedNothing(old, store, outcome) == old

\* reminders.json after save_reminders(store) ended with the outcome.
Saved(old, store, outcome) ==
    CASE outcome = "ok" -> [ok |-> TRUE, data |-> store]
      [] outcome = "error" -> old
      [] OTHER -> [ok |-> FALSE, data |-> <<>>]

\* The memory of a process that is down holds nothing.
Down ==
    /\ running' = FALSE
    /\ reminders' = <<>>
    /\ convAdd' = [u \in Users |-> "END"]
    /\ convRemove' = [u \in Users |-> "END"]
    /\ user_data' = [u \in Users |-> EmptyUserData]
    /\ tick' = IdleTick
    /\ lastEval' = NoEval

(***************************************************************************)
(* A text message of user u, handled to the end                            *)
(***************************************************************************)
\* What the environment records of a message: the text, and the states of the
\* two conversations, the session, the reminders dict and the clock it met.
LogOf(u, text, exc) ==
    [NoEvent EXCEPT !.kind = "msg", !.u = u, !.text = text, !.state = convAdd[u],
                    !.rstate = convRemove[u], !.ud = user_data[u],
                    !.store = reminders, !.clock = now, !.exc = exc]

HandleMessage(u, text, outcome, log) ==
    \E d \in {Dispatch(u, text, convAdd[u], convRemove[u], user_data[u],
                       reminders, now, nextId)} :
       LET res == d.res
           committed == d.conv = "add" /\ res.save
           raised == res.exc # "" \/ (res.save /\ outcome # "ok")
       IN  /\ running
           /\ tick.pc # "scan"
           /\ committed => nextId <= MaxReminders
           /\ IF res.save THEN outcome \in SaveOutcomes ELSE outcome = "ok"
           /\ nextId' = IF committed THEN nextId + 1 ELSE nextId
           /\ disk' = IF res.save THEN Saved(disk, res.store, outcome) ELSE disk
           /\ event' = IF log THEN LogOf(u, text, res.exc) ELSE NoEvent
           /\ UNCHANGED <<now, sends>>
           /\ IF outcome = "crash"
              THEN Down
              ELSE /\ reminders' = res.store
                   /\ convAdd' = IF d.conv = "add" /\ ~raised /\ res.next # "KEEP"
                                 THEN [convAdd EXCEPT ![u] = res.next]
                                 ELSE convAdd
                   /\ convRemove' =
                         IF d.conv = "remove" /\ ~raised /\ res.next # "KEEP"
                         THEN [convRemove EXCEPT ![u] = res.next]
                         ELSE convRemove
                   /\ user_data' = IF raised THEN user_data
                                   ELSE [user_data EXCEPT ![u] = res.ud]
                   /\ UNCHANGED <<running, tick, lastEval>>

(***************************************************************************)
(* send_reminders.  The coroutine runs without interruption from one await *)
(* to the next; its only await is the send_message call, where message     *)
(* handlers may run.  The scan is taken one loop iteration at a time.      *)
(***************************************************************************)
\* Lines 498-532 for one reminder: whether the date checks skipped it
\* (continue), and should_send.
\* The stored text compared as it was typed.
OneOffDueRaw(r, tk) ==
    r.datetime = tk.current_date \o <<" ">> \o tk.current_time

\* Lines 503-508: the stored text is parsed and formatted again, and the
\* date and the minute are compared with those of the scan.
OneOffDue(r, tk) ==
    LET reminder_dt   == ParseDateTime(r.datetime)
        reminder_time == FormatTime(reminder_dt)
        reminder_date == FormatDate(reminder_dt)
    IN  tk.current_date = reminder_date /\ tk.current_time = reminder_time

Evaluate(r, tk) ==
    IF r.frequency = OneOff
    THEN [rejected |-> FALSE, should_send |-> ~r.sent /\ OneOffDue(r, tk)]
    ELSE IF StrLess(tk.current_date, r.start_date)
    THEN [rejected |-> TRUE, should_send |-> FALSE]
    ELSE IF r.end_date # None /\ StrLess(r.end_date, tk.current_date)
    THEN [rejected |-> TRUE, should_send |-> FALSE]
    ELSE [rejected |-> FALSE,
          should_send |-> /\ r.time = tk.current_time
                          /\ \/ r.frequency = Daily
                             \/ r.frequency = Weekly /\ tk.current_weekday = 0
                             \/ r.frequency = Monthly /\ tk.current_day = 1]

\* The mark forgotten.
MarkSentNot(store, ui, ri) == store

\* The one-off reminder that fires taken out of the list instead of marked.
MarkSentByRemoval(store, ui, ri) ==
    [store EXCEPT ![ui].list = SubSeq(@, 1, ri - 1) \o SubSeq(@, ri + 1, Len(@))]

\* Line 511: the one-off reminder that fires is marked before it is sent.
MarkSent(store, ui, ri) == [store EXCEPT ![ui].list[ri].sent = TRUE]

\* The save left to a later mutation.
PersistSentNot(old, store, outcome) == old

\* Line 512: the store is saved as soon as the reminder is marked.
PersistSent(old, store, outcome) == Saved(old, store, outcome)

\* Where the scan goes next from position (ui, ri): the inner loop reads the
\* list as it is now; the dict iterator (line 496) raises RuntimeError when
\* the dict has changed size since the iteration began.
RECURSIVE NextPos(_, _, _, _)
NextPos(store, size, ui, ri) ==
    IF ui >= 1 /\ ui <= Len(store) /\ ri <= Len(store[ui].list)
    THEN [kind |-> "eval", ui |-> ui, ri |-> ri]
    ELSE IF Len(store) # size THEN [kind |-> "RuntimeError", ui |-> ui, ri |-> ri]
    ELSE IF ui + 1 > Len(store) THEN [kind |-> "done", ui |-> ui, ri |-> ri]
    ELSE NextPos(store, size, ui + 1, 1)

\* What the scan reads of the clock (lines 488-492).
ReadClock(clock, size) ==
    [pc |-> "scan", ui |-> 0, ri |-> 1, size |-> size, now_sgt |-> clock,
     current_time |-> FormatTime(clock),
     current_date |-> FormatDate(clock.date),
     current_day |-> clock.date.d,
     current_weekday |-> Weekday(clock.date), id |-> 0, oneoff |-> FALSE,
     track |-> FALSE, had |-> {}, seen |-> <<>>, failed |-> {}]

\* The same reading, for a scan of which the record is kept.
ReadClockTracked(clock, store) ==
    [ReadClock(clock, Len(store)) EXCEPT !.track = TRUE, !.had = Ids(store)]

\* What the scan made of reminder r (as it was before the scan marked it), and
\* the clock reading it used.
EvalRecord(r, tk, ev) ==
    [id |-> r.id, reminder |-> r, now_sgt |-> tk.now_sgt, rejected |-> ev.rejected,
     should_send |-> ev.should_send]

\* The scan from tk on, up to and including the next reminder (lines 496-534).
\* A one-off reminder that fires is marked and the store saved; an exception
\* of save_reminders, like the RuntimeError of the iterator, ends the scan.
ScanStep(tk, outcome) ==
    \E pos \in {NextPos(reminders, tk.size, tk.ui, tk.ri)} :
       IF pos.kind # "eval"
       THEN /\ outcome = "ok"
            /\ tick' = IdleTick
            /\ lastEval' = NoEval
            /\ event' = [NoEvent EXCEPT !.kind = pos.kind, !.had = tk.had,
                                        !.seen = tk.seen, !.failed = tk.failed]
            /\ UNCHANGED <<reminders, disk, running, convAdd, convRemove,
                           user_data>>
       ELSE \E r \in {reminders[pos.ui].list[pos.ri]} :
            \E ev \in {Evaluate(r, tk)} :
               LET flip == r.frequency = OneOff /\ ev.should_send
                   marked == MarkSent(reminders, pos.ui, pos.ri)
               IN  /\ IF flip THEN outcome \in SaveOutcomes ELSE outcome = "ok"
                   /\ disk' = IF flip THEN PersistSent(disk, marked, outcome) ELSE disk
                   /\ event' = IF outcome \in {"error", "error_torn"}
                               THEN [NoEvent EXCEPT !.kind = "OSError", !.id = r.id,
                                                    !.had = tk.had,
                                                    !.seen = IF tk.track
                                                             THEN Append(tk.seen, r.id)
                                                             ELSE tk.seen,
                                                    !.failed = tk.failed]
                               ELSE NoEvent
                   /\ IF outcome = "crash"
                      THEN Down
                      ELSE /\ reminders' = IF flip THEN marked ELSE reminders
                           /\ lastEval' = IF outcome = "ok"
                                          THEN EvalRecord(r, tk, ev) ELSE NoEval
                           /\ tick' =
                                 IF outcome # "ok" THEN IdleTick
                                 ELSE [tk EXCEPT
                                         !.pc = IF ev.should_send THEN "send"
                                                ELSE "scan",
                                         !.ui = pos.ui, !.ri = pos.ri + 1,
                                         !.id = IF ev.should_send THEN r.id ELSE 0,
                                         !.oneoff = flip,
                                         !.seen = IF tk.track THEN Append(@, r.id)
                                                  ELSE @]
                           /\ UNCHANGED <<running, convAdd, convRemove, user_data>>

\* The job runs: lines 488-496, then the scan up to its first reminder.
TickStart(outcome) ==
    /\ running
    /\ tick.pc = "idle"
    /\ ScanStep(ReadClock(now, Len(reminders)), outcome)
    /\ UNCHANGED <<now, sends, nextId>>

\* The job runs, and the record of its scan is kept.
TickStartTracked(outcome) ==
    /\ running
    /\ tick.pc = "idle"
    /\ ScanStep(ReadClockTracked(now, reminders), outcome)
    /\ UNCHANGED <<now, sends, nextId>>

\* The scan goes on to its next reminder.
TickStep(outcome) ==
    /\ running
    /\ tick.pc = "scan"
    /\ ScanStep(tick, outcome)
    /\ UNCHANGED <<now, sends, nextId>>

\* The exception of send_message let out of the job.
SendResultUncaught(ok) == IF ok THEN "continue" ELSE "raise"

\* Lines 538-542: try ... except Exception; whether send_message returns or
\* raises, the loop goes on.
SendResult(ok) == "continue"

\* Lines 538-542: send_message is called, and returns or raises.
TickSend(ok) ==
    /\ running
    /\ tick.pc = "send"
    /\ sends' = IF tick.oneoff THEN [sends EXCEPT ![tick.id] = @ + 1] ELSE sends
    /\ IF SendResult(ok) = "continue"
       THEN /\ tick' = [tick EXCEPT !.pc = "scan", !.id = 0, !.oneoff = FALSE,
                                    !.failed = IF ok \/ ~tick.track THEN @
                                               ELSE @ \cup {tick.id}]
            /\ event' = NoEvent
            /\ UNCHANGED lastEval
       ELSE /\ tick' = IdleTick
            /\ event' = [NoEvent EXCEPT !.kind = "Exception", !.id = tick.id,
                                        !.had = tick.had, !.seen = tick.seen,
                                        !.failed = IF tick.track
                                                   THEN tick.failed \cup {tick.id}
                                                   ELSE tick.failed]
            /\ lastEval' = NoEval
    /\ UNCHANGED <<reminders, disk, running, convAdd, convRemove, user_data, now,
                   nextId>>

(***************************************************************************)
(* The process and the clock                                               *)
(***************************************************************************)
\* The process dies (between two steps of the event loop).
Crash ==
    /\ running
    /\ tick.pc # "scan"
    /\ Down
    /\ event' = NoEvent
    /\ UNCHANGED <<disk, now, sends, nextId>>

\* Line 33, at import: reminders = load_reminders().  A torn file makes
\* json.load raise, and the process does not come up.
Restart ==
    /\ ~running
    /\ disk.ok
    /\ running' = TRUE
    /\ reminders' = disk.data
    /\ event' = [NoEvent EXCEPT !.kind = "restart"]
    /\ UNCHANGED <<disk, convAdd, convRemove, user_data, now, tick, sends, nextId,
                   lastEval>>

\* Time passes: the clock moves to the next of the instants.
Advance(instants) ==
    /\ \E k \in 1..(Len(instants) - 1) :
          /\ instants[k] = now
          /\ now' = instants[k + 1]
    /\ tick.pc # "scan"
    /\ event' = NoEvent
    /\ UNCHANGED <<reminders, disk, running, convAdd, convRemove, user_data, tick,
                   sends, nextId, lastEval>>

At(y, m, d, H, M, S) == [date |-> [y |-> y, m |-> m, d |-> d], H |-> H, M |-> M, S |-> S]

\* The process comes up with the reminders.json it finds: store, whose
\* reminders were committed under the identities below id.
InitLoaded(clock, store, id) ==
    /\ reminders = store
    /\ disk = [ok |-> TRUE, data |-> store]
    /\ running = TRUE
    /\ convAdd = [u \in Users |-> "END"]
    /\ convRemove = [u \in Users |-> "END"]
    /\ user_data = [u \in Users |-> EmptyUserData]
    /\ now = clock
    /\ tick = IdleTick
    /\ sends = [i \in 1..MaxReminders |-> 0]
    /\ nextId = id
    /\ lastEval = NoEval
    /\ event = NoEvent

InitAt(clock) ==
    /\ reminders = <<>>
    /\ disk = [ok |-> TRUE, data |-> <<>>]
    /\ running = TRUE
    /\ convAdd = [u \in Users |-> "END"]
    /\ convRemove = [u \in Users |-> "END"]
    /\ user_data = [u \in Users |-> EmptyUserData]
    /\ now = clock
    /\ tick = IdleTick
    /\ sends = [i \in 1..MaxReminders |-> 0]
    /\ nextId = 1
    /\ lastEval = NoEval
    /\ event = NoEvent

(***************************************************************************)
(* Spec: user 1 adds and removes reminders while the scan runs; saves and  *)
(* sends may fail, the process may die and come up again.                  *)
(***************************************************************************)
\* Monday 2026-01-05, from 09:00:30 to 09:01:30.
Instants ==
    <<At(2026, 1, 5, 9, 0, 30), At(2026, 1, 5, 9, 1, 0), At(2026, 1, 5, 9, 1, 30)>>

T0900 == <<"0", "9", ":", "0", "0">>

DT0901 ==
    <<"2", "0", "2", "6", "-", "0", "1", "-", "0", "5", " ", "0", "9", ":", "0", "1">>

Junk == <<"x">>

\* What the user writes, by the step of the conversations the user is at.
Texts(sAdd, sRemove) ==
    CASE sAdd = "TASK" -> {<<"a">>}
      [] sAdd = "FREQUENCY" -> {Daily, OneOff, Junk}
      [] sAdd = "TIME" -> {T0900}
      [] sAdd = "START_DATE" -> {Today}
      [] sAdd = "END_DATE" -> {Never, CmdCancel}
      [] sAdd = "ONE_OFF_DATETIME" -> {DT0901, CmdCancel}
      [] sAdd = "END" /\ sRemove = "REMOVE_NUMBER" ->
            {<<"1">>, <<"2">>, <<"0", "1">>, CmdCancel}
      [] OTHER -> {<<"1">>, <<"3">>}

Message ==
    \E text \in Texts(convAdd[1], convRemove[1]) : HandleMessage(1, text, "ok", FALSE)

MessageSaveFails ==
    \E text \in Texts(convAdd[1], convRemove[1]) :
        \E outcome \in SaveOutcomes \ {"ok"} : HandleMessage(1, text, outcome, FALSE)

Tick == TickStart("ok") \/ TickStep("ok")

TickSaveFails ==
    \E outcome \in SaveOutcomes \ {"ok"} : TickStart(outcome) \/ TickStep(outcome)

SendOk == TickSend(TRUE)

SendFails == TickSend(FALSE)

Tock == Advance(Instants)

Init == InitAt(Instants[1])

Next ==
    \/ Message
    \/ MessageSaveFails
    \/ Tick
    \/ TickSaveFails
    \/ SendOk
    \/ SendFails
    \/ Crash
    \/ Restart
    \/ Tock

Spec == Init /\ [][Next]_vars

\* The one-off reminders a store holds under identity i.
Held(store, i) == {r \in AllReminders(store) : r.id = i /\ r.frequency = OneOff}

\* C1: over any sequence of scans, send_message is called at most once for a
\* one-off reminder, whether the call succeeded or failed, and a scan that
\* meets a one-off reminder whose sent flag is true does not fire it.
C1_NotifiedAtMostOnce ==
    /\ \A i \in 1..MaxReminders : sends[i] <= 1
    /\ \A i \in 1..MaxReminders :
          sends[i] = 1 /\ running => \A r \in Held(reminders, i) : r.sent
    /\ lastEval.id # 0 /\ lastEval.reminder.frequency = OneOff
          /\ lastEval.reminder.sent => ~lastEval.should_send

\* A later scan in the minute of the reminder met it again, after its one
\* send, and left it alone.
C1_Witness ==
    /\ lastEval.id # 0
    /\ lastEval.reminder.frequency = OneOff
    /\ lastEval.reminder.sent
    /\ sends[lastEval.id] = 1
    /\ lastEval.now_sgt.H = 9 /\ lastEval.now_sgt.M = 1

\* C2: when send_message is called for a one-off reminder, and ever after,
\* reminders.json holds the reminder with sent = true (unless the file is torn,
\* and then the process does not come up again), so that across crashes and
\* restarts the reminder is sent at most once in total.
C2_SentPersistedBeforeSend ==
    \A i \in 1..MaxReminders :
        /\ (tick.pc = "send" /\ tick.oneoff /\ tick.id = i) \/ sends[i] >= 1
              => (disk.ok => \A r \in Held(disk.data, i) : r.sent)
        /\ sends[i] <= 1

\* The process died after the send and came up again: the store it loaded
\* holds the reminder as sent.
C2_Witness ==
    /\ event.kind = "restart"
    /\ \E i \in 1..MaxReminders :
          /\ sends[i] = 1
          /\ Held(reminders, i) # {}
          /\ \A r \in Held(reminders, i) : r.sent

(***************************************************************************)
(* SpecEval: one user holding one reminder at a time, made with padded and *)
(* unpadded times and dates, and scans on several days; nothing fails.     *)
(***************************************************************************)
\* Saturday 2026-01-31, Sunday 2026-02-01, Monday 2026-02-02 and Tuesday
\* 2026-02-10, each at 09:00:20 and at 09:05:00.
EvalInstants ==
    <<At(2026, 1, 31, 9, 0, 20), At(2026, 1, 31, 9, 5, 0),
      At(2026, 2, 1, 9, 0, 20), At(2026, 2, 1, 9, 5, 0),
      At(2026, 2, 2, 9, 0, 20), At(2026, 2, 2, 9, 5, 0),
      At(2026, 2, 10, 9, 0, 20), At(2026, 2, 10, 9, 5, 0)>>

T900 == <<"9", ":", "0", "0">>

T0905 == <<"0", "9", ":", "0", "5">>

DFeb01 == <<"2", "0", "2", "6", "-", "0", "2", "-", "0", "1">>

DFeb1 == <<"2", "0", "2", "6", "-", "2", "-", "1">>

DFeb02 == <<"2", "0", "2", "6", "-", "0", "2", "-", "0", "2">>

DFeb9 == <<"2", "0", "2", "6", "-", "2", "-", "9">>

DTFeb01 == <<"2", "0", "2", "6", "-", "0", "2", "-", "0", "1", " ", "0", "9", ":", "0", "0">>

DTFeb1 == <<"2", "0", "2", "6", "-", "2", "-", "1", " ", " ", "9", ":", "0">>

DTFeb02 == <<"2", "0", "2", "6", "-", "0", "2", "-", "0", "2", " ", "0", "9", ":", "0", "5">>

EvalTexts(sAdd, sRemove, store) ==
    CASE sAdd = "TASK" -> {<<"a">>}
      [] sAdd = "FREQUENCY" -> {Daily, Weekly, Monthly, OneOff}
      [] sAdd = "TIME" -> {T0900, T900, T0905}
      [] sAdd = "START_DATE" -> {Today, Tomorrow, DFeb01, DFeb1}
      [] sAdd = "END_DATE" -> {Never, OneWeek, DFeb02, DFeb9}
      [] sAdd = "ONE_OFF_DATETIME" -> {DTFeb01, DTFeb1, DTFeb02}
      [] sAdd = "END" /\ sRemove = "REMOVE_NUMBER" -> {<<"0", "1">>}
      [] OTHER -> IF AllReminders(store) = {} THEN {<<"1">>} ELSE {<<"3">>}

\* In SpecEval a message arrives, and time passes, between two scans.
EvalMessage ==
    /\ tick.pc = "idle"
    /\ \E text \in EvalTexts(convAdd[1], convRemove[1], reminders) :
          HandleMessage(1, text, "ok", TRUE)

EvalTick == TickStart("ok") \/ TickStep("ok")

EvalSend == TickSend(TRUE)

EvalTock == tick.pc = "idle" /\ Advance(EvalInstants)

EvalInit == InitAt(EvalInstants[1])

EvalNext == EvalMessage \/ EvalTick \/ EvalSend \/ EvalTock

SpecEval == EvalInit /\ [][EvalNext]_vars

\* The calendar date and the time of day a text the wizard accepted stands for.
DayOf(s) == ToOrdinal(ParseDate(s))

\* Whether the clock reading n is in the minute H:M that the text s stands for.
InMinuteOf(n, s) == LET t == ParseTime(s) IN n.H = t.H /\ n.M = t.M

\* C3: a scan at civil time now fires a one-off reminder exactly when its sent
\* flag is false and the date and the minute of now are those of its fire_at,
\* whatever the seconds, for every date-time text the wizard accepts.
C3_OneOffFiresIffDue ==
    lastEval.id # 0 /\ lastEval.reminder.frequency = OneOff =>
        LET r    == lastEval.reminder
            n    == lastEval.now_sgt
            fire == ParseDateTime(r.datetime)
        IN  lastEval.should_send <=>
               /\ ~r.sent
               /\ n.date = [y |-> fire.y, m |-> fire.m, d |-> fire.d]
               /\ n.H = fire.H
               /\ n.M = fire.M

\* A one-off reminder entered without padding fired in its minute, at second 20.
C3_Witness ==
    /\ lastEval.id # 0
    /\ lastEval.reminder.frequency = OneOff
    /\ lastEval.reminder.datetime = DTFeb1
    /\ lastEval.should_send
    /\ lastEval.now_sgt.S = 20

\* C10: a message in ONE_OFF_DATETIME whose date-time is strictly after the
\* clock at that moment appends one One-off reminder with sent false and ends
\* the conversation; one at or before the clock leaves the reminders dict as
\* it was and the conversation in ONE_OFF_DATETIME.
C10_OneOffCommittedOnlyIfFuture ==
    (event.kind = "msg" /\ event.state = "ONE_OFF_DATETIME"
        /\ ParseDateTime(Strip(event.text)).ok) =>
        LET fire_at == AsDateTime(ParseDateTime(Strip(event.text)))
            new     == AllReminders(reminders) \ AllReminders(event.store)
        IN  IF DateTimeLess(now, fire_at)
            THEN /\ convAdd[event.u] = "END"
                 /\ Cardinality(new) = 1
                 /\ \A r \in new :
                       /\ r.frequency = OneOff
                       /\ ~r.sent
                       /\ AsDateTime(ParseDateTime(r.datetime)) = fire_at
            ELSE /\ convAdd[event.u] = "ONE_OFF_DATETIME"
                 /\ reminders = event.store

\* The date-time typed is the very minute of the clock, at second 0, and is
\* turned down.
C10_Witness ==
    /\ event.kind = "msg"
    /\ event.state = "ONE_OFF_DATETIME"
    /\ event.text = DTFeb02
    /\ now = AsDateTime(ParseDateTime(DTFeb02))
    /\ convAdd[event.u] = "ONE_OFF_DATETIME"
    /\ reminders = event.store

\* C4: a Daily reminder without end date fires in exactly the scans whose date
\* is on or after its start date and whose minute is its time of day.
C4_DailyFiresWhenDue ==
    (lastEval.id # 0 /\ lastEval.reminder.frequency = Daily
        /\ lastEval.reminder.end_date = None) =>
        LET r == lastEval.reminder
            n == lastEval.now_sgt
        IN  lastEval.should_send <=>
               /\ ToOrdinal(n.date) >= DayOf(r.start_date)
               /\ InMinuteOf(n, r.time)

\* The calendar range [start_date, end_date] of a recurring reminder.
BeforeStart(r, n) == ToOrdinal(n.date) < DayOf(r.start_date)

AfterEnd(r, n) == r.end_date # None /\ ToOrdinal(n.date) > DayOf(r.end_date)

\* C5: a scan rejects a recurring reminder on date grounds exactly when the
\* date of now is before its start date, or after its end date if it has one,
\* the dates compared as calendar dates.
C5_RejectsOutsideRange ==
    lastEval.id # 0 /\ lastEval.reminder.frequency # OneOff =>
        (lastEval.rejected <=>
            \/ BeforeStart(lastEval.reminder, lastEval.now_sgt)
            \/ AfterEnd(lastEval.reminder, lastEval.now_sgt))

\* C6: a recurring reminder inside its date range whose time of day is the
\* minute of the scan fires exactly when its frequency rule says so: Daily
\* always, Weekly on Monday, Monthly on the first of the month.
InRangeAtItsMinute(r, n) ==
    /\ r.frequency # OneOff
    /\ ~BeforeStart(r, n)
    /\ ~AfterEnd(r, n)
    /\ InMinuteOf(n, r.time)

C6_FrequencyRuleDecides ==
    (lastEval.id # 0 /\ InRangeAtItsMinute(lastEval.reminder, lastEval.now_sgt)) =>
        LET r == lastEval.reminder
            n == lastEval.now_sgt
        IN  lastEval.should_send <=>
               \/ r.frequency = Daily
               \/ r.frequency = Weekly /\ Weekday(n.date) = 0
               \/ r.frequency = Monthly /\ n.date.d = 1

(***************************************************************************)
(* SpecTime: user 1 starts a Daily reminder and types a time of day.       *)
(***************************************************************************)
MaxTimeLen == 5

TimeChars == {"0", "2", "5", "6", "9", ":"}

TimeTexts ==
    UNION {[1..n -> TimeChars] : n \in 1..MaxTimeLen}
        \cup {<<"2", "3", ":", "5", "9">>, <<"2", "4", ":", "0", "0">>, <<"a", "b", "c">>}

\* The first text typed in TIME is any of TimeTexts; after a text that was
\* turned down the user types 09:00.
TimeStepTexts(sAdd, last) ==
    CASE sAdd = "END" -> {<<"1">>}
      [] sAdd = "TASK" -> {<<"a">>}
      [] sAdd = "FREQUENCY" -> {Daily}
      [] sAdd = "TIME" -> IF last.state = "TIME" THEN {T0900} ELSE TimeTexts
      [] OTHER -> {}

TimeMessage ==
    \E text \in TimeStepTexts(convAdd[1], event) :
        HandleMessage(1, text, "ok", TRUE)

TimeInit == InitAt(EvalInstants[1])

TimeNext == TimeMessage

SpecTime == TimeInit /\ [][TimeNext]_vars

\* A 24-hour HH:MM string: two digits, a colon, two digits, 00:00 to 23:59.
IsHHMM(s) ==
    /\ Len(s) = 5
    /\ s[3] = ":"
    /\ \A k \in {1, 2, 4, 5} : s[k] \in D09
    /\ 10 * DigitVal(s[1]) + DigitVal(s[2]) <= 23
    /\ 10 * DigitVal(s[4]) + DigitVal(s[5]) <= 59

\* C7: a text typed in TIME is accepted, stored and followed by START_DATE
\* exactly when it is a 24-hour HH:MM string; any other text leaves the
\* conversation in TIME and no time in the session.
C7_TimeAcceptedIffHHMM ==
    (event.kind = "msg" /\ event.state = "TIME") =>
        IF IsHHMM(Strip(event.text))
        THEN /\ convAdd[event.u] = "START_DATE"
             /\ user_data[event.u].time = Strip(event.text)
        ELSE /\ convAdd[event.u] = "TIME"
             /\ user_data[event.u].time = None

(***************************************************************************)
(* SpecDates: user 1 makes recurring reminders, one held at a time, with   *)
(* every kind of start date and end date.                                  *)
(***************************************************************************)
DatesInstants == <<At(2026, 1, 31, 9, 0, 20), At(2026, 2, 1, 9, 0, 20)>>

DFeb2 == <<"2", "0", "2", "6", "-", "2", "-", "2">>

DJan31 == <<"2", "0", "2", "6", "-", "0", "1", "-", "3", "1">>

DLeap == <<"2", "0", "2", "8", "-", "0", "2", "-", "2", "9">>

DLate == <<"9", "9", "9", "9", "-", "1", "2", "-", "3", "0">>

DLast == <<"9", "9", "9", "9", "-", "1", "2", "-", "3", "1">>

DatesTexts(sAdd, sRemove, store) ==
    CASE sAdd = "TASK" -> {<<"a">>}
      [] sAdd = "FREQUENCY" -> {Daily, Weekly}
      [] sAdd = "TIME" -> {T0900}
      [] sAdd = "START_DATE" ->
            {Today, Tomorrow, CustomDate, DFeb01, DFeb1, DLeap, DLate, Junk}
      [] sAdd = "END_DATE" ->
            {Never, CustomDate, DJan31, DFeb01, DFeb1, DFeb02, DFeb2, DLast, Junk}
                \cup Shortcuts
      [] sAdd = "END" /\ sRemove = "REMOVE_NUMBER" -> {<<"0", "1">>}
      [] OTHER -> IF AllReminders(store) = {} THEN {<<"1">>} ELSE {<<"3">>}

DatesMessage ==
    \E text \in DatesTexts(convAdd[1], convRemove[1], reminders) :
        HandleMessage(1, text, "ok", TRUE)

DatesTock == Advance(DatesInstants)

DatesInit == InitAt(DatesInstants[1])

DatesNext == DatesMessage \/ DatesTock

SpecDates == DatesInit /\ [][DatesNext]_vars

\* C8: a relative choice typed in END_DATE commits the reminder of the session
\* with end_date the start date plus 7, 30, 90, 180 or 365 days, whatever the
\* start date of the session.
C8_ShortcutAddsFixedDays ==
    (event.kind = "msg" /\ event.state = "END_DATE"
        /\ Strip(event.text) \in Shortcuts) =>
        \E r \in AllReminders(reminders) \ AllReminders(event.store) :
            /\ r.start_date = event.ud.start_date
            /\ r.end_date # None
            /\ DayOf(r.end_date) =
                  DayOf(r.start_date) + ShortcutDays(Strip(event.text))

\* C9: every recurring reminder, in memory and on disk, has no end date or an
\* end date that is a calendar date strictly after its start date.
C9_EndAfterStart ==
    \A r \in AllReminders(reminders) \cup AllReminders(disk.data) :
        r.frequency # OneOff =>
            r.end_date = None \/ DayOf(r.end_date) > DayOf(r.start_date)

\* A reminder committed with an end date typed without padding.
C9_Witness ==
    \E r \in AllReminders(reminders) :
        /\ r.start_date = DFeb01
        /\ r.end_date = DFeb2
        /\ event.kind = "msg"
        /\ event.state = "END_DATE"
        /\ event.text = DFeb2
        /\ event.ud.start_date = DFeb01

(***************************************************************************)
(* SpecWizard: user 1 goes through the two conversations with texts that   *)
(* pass and texts that fail each step, and with /cancel; the clock stands  *)
(* at Saturday 2026-01-31 09:00:20 and every save succeeds.                *)
(***************************************************************************)
T2500 == <<"2", "5", ":", "0", "0">>

DBad == <<"2", "0", "2", "6", "-", "0", "2", "-", "3", "0">>

WizardNumbers ==
    {<<"1">>, <<"2">>, <<"3">>, <<"0">>, <<"0", "2">>, <<"1", "5">>, <<"9">>, Junk}

WizardTexts(sAdd, sRemove) ==
    CASE sAdd = "TASK" -> {<<"a">>, CmdCancel}
      [] sAdd = "FREQUENCY" -> {Daily, OneOff, Junk, CmdCancel}
      [] sAdd = "TIME" -> {T0900, T2500, CmdCancel}
      [] sAdd = "START_DATE" -> {Today, DBad, CmdCancel}
      [] sAdd = "END_DATE" -> {Never, DJan31, Junk, CmdCancel}
      [] sAdd = "ONE_OFF_DATETIME" -> {DTFeb02, DT0901, Junk, CmdCancel}
      [] sAdd = "END" /\ sRemove = "REMOVE_NUMBER" -> WizardNumbers \cup {CmdCancel}
      [] OTHER -> {<<"1">>, <<"3">>}

WizardMessage ==
    \E text \in WizardTexts(convAdd[1], convRemove[1]) :
        HandleMessage(1, text, "ok", TRUE)

WizardInit == InitAt(EvalInstants[1])

WizardNext == WizardMessage

SpecWizard == WizardInit /\ [][WizardNext]_vars

\* C11: a text that is an integer k from 1 to n, sent by a user in
\* REMOVE_NUMBER whose list holds n reminders, removes the k-th reminder of the
\* list and no other, keeps the order of the others, saves the dict and ends
\* the removal conversation.
C11_RemovesKth ==
    (event.kind = "msg" /\ event.rstate = "REMOVE_NUMBER"
        /\ HasKey(event.store, event.u)
        /\ ParseInt(Strip(event.text)).ok
        /\ ParseInt(Strip(event.text)).value \in 1..Len(ListOf(event.store, event.u))) =>
        LET old == ListOf(event.store, event.u)
            new == ListOf(reminders, event.u)
            k   == ParseInt(Strip(event.text)).value
        IN  /\ Len(new) = Len(old) - 1
            /\ \A j \in 1..Len(new) : new[j] = IF j < k THEN old[j] ELSE old[j + 1]
            /\ disk = [ok |-> TRUE, data |-> reminders]
            /\ convRemove[event.u] = "END"

\* Whether the text of a logged message fails the validation of the step the
\* user is at: a frequency that is none of the four, a time or a date that
\* does not parse, an end date not after the start date, a removal number that
\* is no integer or is outside 1..n.
FailsValidation(ev) ==
    LET t == Strip(ev.text)
    IN  /\ ev.kind = "msg"
        /\ ~IsCommand(ev.text)
        /\ CASE ev.state = "FREQUENCY" -> t \notin {Daily, Weekly, Monthly, OneOff}
             [] ev.state = "TIME" -> ~ParseTime(t).ok
             [] ev.state = "START_DATE" ->
                   t \notin {Today, Tomorrow, CustomDate} /\ ~ParseDate(t).ok
             [] ev.state = "END_DATE" ->
                   /\ t \notin {Never, CustomDate} \cup Shortcuts
                   /\ \/ ~ParseDate(t).ok
                      \/ DayOf(t) <= DayOf(ev.ud.start_date)
             [] ev.state = "ONE_OFF_DATETIME" -> ~ParseDateTime(t).ok
             [] ev.state = "END" /\ ev.rstate = "REMOVE_NUMBER" ->
                   \/ ~ParseInt(t).ok
                   \/ ~HasKey(ev.store, ev.u)
                   \/ ParseInt(t).value \notin 1..Len(ListOf(ev.store, ev.u))
             [] OTHER -> FALSE

\* C12: a text that fails the validation of the step the user is at leaves
\* both conversations of the user in the state they were in and the reminders
\* dict as it was, and no exception leaves the handler.
C12_InvalidInputStays ==
    FailsValidation(event) =>
        /\ convAdd[event.u] = event.state
        /\ convRemove[event.u] = event.rstate
        /\ reminders = event.store
        /\ event.exc = ""

T0901 == <<"0", "9", ":", "0", "1">>

DJan05 == <<"2", "0", "2", "6", "-", "0", "1", "-", "0", "5">>

\* The reminder with identity i a reminders.json holds, per kind.
LoadedReminder(i, kind) ==
    IF kind = OneOff
    THEN [id |-> i, task |-> <<"a">>, frequency |-> OneOff, datetime |-> DT0901,
          sent |-> FALSE, time |-> None, start_date |-> None, end_date |-> None]
    ELSE [id |-> i, task |-> <<"a">>, frequency |-> Daily, time |-> T0901,
          start_date |-> DJan05, end_date |-> None, datetime |-> None,
          sent |-> FALSE]

\* The dict with reminders lo..hi for user u, none if lo > hi.
LoadedList(u, lo, hi, kinds) ==
    IF lo > hi THEN <<>>
    ELSE <<[uid |-> u,
            list |-> [j \in 1..(hi - lo + 1) |->
                         LoadedReminder(lo + j - 1, kinds[lo + j - 1])]]>>

\* The files with reminders 1..n: the first k of user 1, the others of user 2.
LoadedStores(n) ==
    {LoadedList(1, 1, k, kinds) \o LoadedList(2, k + 1, n, kinds) :
        k \in 0..n, kinds \in [1..n -> {OneOff, Daily}]}

ScanTick == TickStartTracked("ok") \/ TickStep("ok")

ScanTock == tick.pc = "idle" /\ Advance(Instants)

ScanInit ==
    \E store \in LoadedStores(MaxReminders) :
        InitLoaded(Instants[1], store, MaxReminders + 1)

ScanNext == ScanTick \/ SendFails \/ ScanTock

SpecScan == ScanInit /\ [][ScanNext]_vars

\* How a scan can end: the loops finished, or an exception left the job.
ScanEnds == {"done", "RuntimeError", "OSError", "Exception"}

\* Whether id occurs exactly once in the sequence of identities.
SeenOnce(seen, id) == Cardinality({k \in 1..Len(seen) : seen[k] = id}) = 1

\* C14: a scan in which send_message raised ends with its loops finished, and
\* has looked at every reminder of every user.
C14_SendFailureDoesNotStopScan ==
    (event.kind \in ScanEnds /\ event.failed # {}) =>
        /\ event.kind = "done"
        /\ \A i \in Ids(reminders) : SeenOnce(event.seen, i)

\* The send for the first reminder of user 1 raised, and the scan went on to
\* the reminders of user 2.
C14_Witness ==
    /\ event.kind = "done"
    /\ 1 \in event.failed
    /\ Len(reminders) = 2
    /\ reminders[1].list[1].id = 1
    /\ \A i \in Ids(reminders) : SeenOnce(event.seen, i)

\* C15: when save_reminders raises in a scan that has marked a One-off
\* reminder as sent, the reminder stays marked in memory and the scan goes on
\* (to the send, and to the reminders that follow).
C15_SaveFailureDoesNotStopScan ==
    event.kind = "OSError" =>
        /\ Held(reminders, event.id) # {}
        /\ \A r \in Held(reminders, event.id) : r.sent
        /\ tick.pc \in {"send", "scan"}

(***************************************************************************)
(* SpecTorn: the process comes up with a reminders.json that holds one     *)
(* reminder less than MaxReminders, of user 1 or of user 2; user 2 adds    *)
(* and removes reminders while the scan runs and while it waits in         *)
(* send_message.                                                           *)
(***************************************************************************)
TornMessage ==
    \E text \in Texts(convAdd[2], convRemove[2]) : HandleMessage(2, text, "ok", FALSE)

TornInit ==
    \E store \in LoadedStores(MaxReminders - 1) :
        InitLoaded(Instants[1], store, MaxReminders)

TornNext == TornMessage \/ ScanTick \/ SendOk \/ Tock

SpecTorn == TornInit /\ [][TornNext]_vars

\* C16: a scan, whatever commits and removals the handlers made while it
\* waited in send_message, ends with its loops finished and without an
\* exception, and has looked exactly once at every reminder the dict held from
\* the beginning of the scan to its end.
C16_ScanNeverTorn ==
    event.kind \in ScanEnds =>
        /\ event.kind = "done"
        /\ \A i \in event.had \cap Ids(reminders) : SeenOnce(event.seen, i)

\* C17: as long as no save fails, reminders.json holds the store of the
\* process at every point where a handler or the scan has returned or waits,
\* whatever commits, removals and sent flips have happened; the store is read
\* from the file at startup only.
C17_DiskIsMemory ==
    /\ running
    /\ disk.ok
    /\ disk.data = reminders

\* The file holds a reminder that the wizard committed and the scan marked as
\* sent, after the reminder loaded at startup has been removed.
C17_Witness ==
    /\ tick.pc = "idle"
    /\ disk = [ok |-> TRUE, data |-> reminders]
    /\ \E r \in AllReminders(disk.data) : r.id = MaxReminders /\ r.sent
    /\ \A i \in 1..(MaxReminders - 1) : i \notin Ids(reminders)

\* The step takes the one-off reminder i from not sent to sent.
Flips(i) ==
    /\ Held(reminders, i) # {}
    /\ \A r \in Held(reminders, i) : ~r.sent
    /\ Held(reminders', i) # {}
    /\ \A r \in Held(reminders', i) : r.sent

\* The step is the scan's handling of the due one-off reminder i (lines
\* 509-512), which goes on to the send or ends in the exception of the save.
ScanMarks(i) ==
    /\ tick.pc \in {"idle", "scan"}
    /\ \/ tick'.pc = "send" /\ tick'.oneoff /\ tick'.id = i
       \/ event'.kind = "OSError" /\ event'.id = i

\* C18: a one-off reminder enters the store of a running process with sent
\* false; only the scan takes sent from false to true; and no step takes it
\* from true to false while the reminder is in the store.
C18_SentMonotone ==
    [][\A i \in Ids(reminders) \cup Ids(reminders') :
          /\ (running /\ Held(reminders, i) = {} /\ Held(reminders', i) # {})
                => \A r \in Held(reminders', i) : ~r.sent
          /\ Flips(i) => ScanMarks(i)
          /\ (Held(reminders', i) # {} /\ \E r \in Held(reminders, i) : r.sent)
                => \A r \in Held(reminders', i) : r.sent]_vars

\* A one-off reminder that the scan marked and sent is still in the store, and
\* still sent, while its owner is at a later step of a wizard.
C18_Witness ==
    /\ tick.pc = "idle"
    /\ convAdd[1] # "END" \/ convRemove[1] # "END"
    /\ \E r \in AllReminders(reminders) :
          r.frequency = OneOff /\ r.sent /\ sends[r.id] = 1

(***************************************************************************)
(* SpecLive: the job queue runs send_reminders once every 60 seconds       *)
(* (line 593), so one scan starts in each minute.  Time does not stop; the  *)
(* scan, which runs without a break from one await to the next, reaches    *)
(* its await or its end; every send_message returns.  User 2 writes when   *)
(* the user likes.                                                         *)
(***************************************************************************)
LiveInstants ==
    <<At(2026, 1, 5, 9, 0, 30), At(2026, 1, 5, 9, 1, 30), At(2026, 1, 5, 9, 2, 30)>>

\* The interval has passed: the clock reads the next instant and the job runs.
TimerFires ==
    /\ running
    /\ tick.pc = "idle"
    /\ \E k \in 1..(Len(LiveInstants) - 1) :
          /\ LiveInstants[k] = now
          /\ now' = LiveInstants[k + 1]
          /\ ScanStep(ReadClockTracked(LiveInstants[k + 1], reminders), "ok")
    /\ UNCHANGED <<sends, nextId>>

LiveStep == TickStep("ok")

LiveInit ==
    \E store \in LoadedStores(MaxReminders - 1) :
        InitLoaded(LiveInstants[1], store, MaxReminders)

LiveNext == TornMessage \/ TimerFires \/ LiveStep \/ SendOk

SpecLive ==
    /\ LiveInit
    /\ [][LiveNext]_vars
    /\ <>(now = LiveInstants[Len(LiveInstants)])
    /\ []<>(tick.pc # "scan")
    /\ WF_vars(SendOk)

\* A scan is running in the minute of the fire_at of the unsent one-off
\* reminder i.
ScanInItsMinute(i) ==
    /\ tick.pc # "idle"
    /\ Held(reminders, i) # {}
    /\ \A r \in Held(reminders, i) :
          /\ ~r.sent \/ (tick.pc = "send" /\ tick.id = i)
          /\ ParseDateTime(r.datetime).ok
          /\ LET p == ParseDateTime(r.datetime)
             IN  /\ [y |-> p.y, m |-> p.m, d |-> p.d] = now.date
                 /\ p.H = now.H
                 /\ p.M = now.M

\* send_message has been called for the one-off reminder i, which is marked.
Delivered(i) ==
    /\ sends[i] >= 1
    /\ \A r \in Held(reminders, i) : r.sent

\* C19: a one-off reminder that is in the store and is never removed, and in
\* whose fire_at minute a scan runs with a notifier that succeeds, is
\* eventually handed to send_message and marked as sent.
C19_EventuallyDelivered ==
    \A i \in 1..MaxReminders :
        []((ScanInItsMinute(i) /\ [](Held(reminders, i) # {})) => <>Delivered(i))

\* C20: no user is at a step of the add conversation while the removal
\* conversation waits for that user's number.
C20_OneFlowPerUser ==
    \A u \in Users : convAdd[u] = "END" \/ convRemove[u] = "END"

(***************************************************************************)
(* SpecCommit: the process comes up with a reminders.json that holds the   *)
(* reminders of user 1 or of user 2, and user 2 goes through the wizards.  *)
(***************************************************************************)
CommitMessage ==
    \E text \in WizardTexts(convAdd[2], convRemove[2]) :
        HandleMessage(2, text, "ok", TRUE)

SpecCommit == TornInit /\ [][CommitMessage]_vars

\* The message ev was the last of an add session and was accepted: the
\* conversation was at the end date or at the one-off date-time, and has ended
\* by something other than a command.
Commits(ev) ==
    /\ ev.kind = "msg"
    /\ ev.state \in {"END_DATE", "ONE_OFF_DATETIME"}
    /\ ~IsCommand(ev.text)
    /\ ev.exc = ""
    /\ convAdd[ev.u] = "END"

\* The list of user u in a store, empty when u is not a key.
ListOrNone(store, u) == IF HasKey(store, u) THEN ListOf(store, u) ELSE <<>>

\* C21: a commit by user u leaves u's list as it was with one reminder more
\* at its end, whose task, frequency, time and start date are those of the
\* session; the entries of the other users are what and where they were.
C21_CommitAppendsOne ==
    Commits(event) =>
        LET u == event.u
            old == ListOrNone(event.store, u)
            new == ListOrNone(reminders, u)
            r == new[Len(new)]
        IN  /\ Len(new) = Len(old) + 1
            /\ SubSeq(new, 1, Len(old)) = old
            /\ r.task = event.ud.task
            /\ IF event.state = "END_DATE"
               THEN /\ r.frequency = event.ud.frequency
                    /\ r.time = event.ud.time
                    /\ r.start_date = event.ud.start_date
               ELSE /\ r.frequency = OneOff
                    /\ event.ud.frequency = OneOff
                    /\ ~r.sent
            /\ Len(reminders) = Len(event.store) + (IF HasKey(event.store, u) THEN 0 ELSE 1)
            /\ \A k \in 1..Len(event.store) :
                  event.store[k].uid # u => reminders[k] = event.store[k]

\* User 2, who holds a reminder, has committed a recurring reminder after it.
C21_Witness ==
    /\ Commits(event)
    /\ event.state = "END_DATE"
    /\ event.ud.frequency = Daily
    /\ Len(ListOrNone(event.store, 2)) = MaxReminders - 1
    /\ Len(ListOrNone(reminders, 2)) = MaxReminders

\* The step belongs to a scan of a process that stays up: the scan starts,
\* goes on to its next reminder, or comes back from send_message.
ScanActs == running /\ running' /\ tick' # tick

\* Reminder b is reminder a, or a marked as sent by the scan that fires it.
SameOrMarked(a, b) ==
    \/ b = a
    \/ /\ a.frequency = OneOff
       /\ ~a.sent
       /\ b = [a EXCEPT !.sent = TRUE]
       /\ ScanMarks(a.id)
       /\ lastEval'.id = a.id => lastEval'.should_send

\* C22: a step of the scan leaves the dict with the same keys and the same
\* reminders in the same order; the only difference is the sent flag of a
\* one-off reminder the step fires.  A recurring reminder the step has
\* evaluated is unchanged, and evaluating it again at the same clock reading
\* gives the same answer.
C22_ScanChangesOnlySent ==
    [][ScanActs =>
          /\ Len(reminders') = Len(reminders)
          /\ \A k \in 1..Len(reminders) :
                /\ reminders'[k].uid = reminders[k].uid
                /\ Len(reminders'[k].list) = Len(reminders[k].list)
                /\ \A j \in 1..Len(reminders[k].list) :
                      SameOrMarked(reminders[k].list[j], reminders'[k].list[j])
          /\ (lastEval'.id # 0 /\ lastEval'.reminder.frequency # OneOff) =>
                \A r \in AllReminders(reminders') :
                   r.id = lastEval'.id =>
                      /\ r = lastEval'.reminder
                      /\ Evaluate(r, ReadClock(lastEval'.now_sgt, 0)).should_send
                            = lastEval'.should_send]_vars

\* A scan has ended that looked at a recurring reminder and at a one-off
\* reminder, which it fired: both are in the store, the one-off marked.
C22_Witness ==
    /\ event.kind = "done"
    /\ \E a, b \in AllReminders(reminders) :
          /\ a.frequency = OneOff /\ a.sent /\ sends[a.id] = 1
          /\ b.frequency = Daily
          /\ SeenOnce(event.seen, a.id)
          /\ SeenOnce(event.seen, b.id)
====
